---- MODULE Spec2Model ----
(***************************************************************************)
(* A model of src/service/search/datafusion/exec.rs: the construction of   *)
(* a DataFusion session context (create_session_config,                    *)
(* create_runtime_env, prepare_datafusion_context), the workgroup resource *)
(* governor (get_cpu_and_mem_limit), table registration (register_table,   *)
(* create_parquet_table), function registration (register_udf) and the    *)
(* compaction routine (merge_parquet_files).                               *)
(*                                                                         *)
(* Option<T> is a sequence of length 0 (None) or 1 (Some).  Result<T> is a *)
(* record with a field ok, and val (Ok) or err (Err).                      *)
(***************************************************************************)
EXTENDS Integers, Sequences, FiniteSets, TLC

VARIABLES
    op,         \* the entry point that was called
    cfg,        \* get_config() / get_o2_config(): the process configuration
    session,    \* SearchSession: id, work_group, target_partitions, storage_type
    sorted_by_time, \* the sorted_by_time argument
    schema,     \* Arc<Schema>: the sequence of fields handed to the operation
    files,      \* &[FileKey]: the file list handed to the operation
    args,       \* table_name, org_id, and what get_all_transform answers
    resource,   \* what WorkGroup::get_dynamic_resource answers, call by call
    gov,        \* arguments of a direct get_cpu_and_mem_limit call
    pc,         \* position of the running operation
    ctx,        \* Option<SessionContext>: the context the operation built
    table,      \* Option<NewListingTable> built by create_parquet_table
    file_list,  \* storage::file_list: (session id, schema key) -> staged files
    file_list0, \* file_list as it was when the operation was called
    trace,      \* the calls made on collaborators so far, in program order
    ret,        \* Option<Result>: what the operation returned
    cpt,        \* create_parquet_table's locals: target_partitions, prefix
    merge       \* merge_parquet_files: its arguments and locals

vars == <<op, args, cfg, session, sorted_by_time, schema, files, resource, gov, pc,
          ctx, table, file_list, file_list0, trace, ret, cpt, merge>>

(***************************************************************************)
(* Program constants                                                       *)
(***************************************************************************)
DATAFUSION_MIN_MEM == 268435456

DATAFUSION_MIN_PARTITION == 2

(***************************************************************************)
(* Bounds of the model                                                     *)
(***************************************************************************)
MaxNominalPartitions == 8

MaxTargetPartitions == 4

MaxCpuNum == 3

MaxMinPartitionNum == 2

None == <<>>

Some(x) == <<x>>

Ok(v) == [ok |-> TRUE, val |-> v]

Err(e) == [ok |-> FALSE, err |-> e]

max(a, b) == IF a >= b THEN a ELSE b

\* The percentages a workgroup snapshot can carry, all within (0, 100].
Percents == {1, 50, 80, 100}

\* Option<String> work_group: absent, a name WorkGroup::from_str rejects, and
\* two names it accepts.
WorkGroupNames == {"short", "long"}

WorkGroupArgs == {None, Some("bogus"), Some("short"), Some("long")}

\* WorkGroup::from_str(&wg): Ok for the known workgroup names only.
WorkGroupFromStr(wg) ==
    IF wg \in WorkGroupNames THEN Ok(wg) ELSE Err("unknown work group")

\* wg.get_dynamic_resource().await: an answer of the lookup, either an error
\* or a (cpu, mem) snapshot.  Every call is answered anew.
Resources ==
    {Err("backend unavailable")}
        \cup {Ok([cpu |-> c, mem |-> m]) : c \in Percents, m \in Percents}

\* memory_size * mem as usize / 100 on usize.  x * p / 100 is computed as
\* (x / 100) * p + (x % 100) * p / 100, which is the same natural number for
\* all naturals x and p and keeps every intermediate value of the sizes used
\* here within TLC's 32-bit integers; the sizes are far below the 64-bit
\* usize range, so the product never wraps.
ScaleMem(memory_size, mem) ==
    (memory_size \div 100) * mem + ((memory_size % 100) * mem) \div 100

\* target_partitions * cpu as usize / 100
ScalePartitions(target_partitions, cpu) == (target_partitions * cpu) \div 100

(***************************************************************************)
(* get_cpu_and_mem_limit (enterprise builds).  The result carries, next to *)
(* the Result<(usize, usize)>, the number of get_dynamic_resource calls    *)
(* the function made.                                                      *)
(***************************************************************************)
MutGovDefaultsOnLookupError(work_group, target_partitions, memory_size, res, cpu_limit_enabled) ==
    IF work_group # None /\ WorkGroupFromStr(work_group[1]).ok /\ res.ok
    THEN [r |-> Ok([partitions |->
                        IF cpu_limit_enabled
                        THEN ScalePartitions(target_partitions, res.val.cpu)
                        ELSE target_partitions,
                    memory |-> ScaleMem(memory_size, res.val.mem)]),
          calls |-> 1]
    ELSE [r |-> Ok([partitions |-> target_partitions, memory |-> memory_size]),
          calls |-> IF work_group # None /\ WorkGroupFromStr(work_group[1]).ok
                    THEN 1 ELSE 0]

MutGovIgnoresSwitch(work_group, target_partitions, memory_size, res, cpu_limit_enabled) ==
    IF work_group # None /\ WorkGroupFromStr(work_group[1]).ok
    THEN IF ~res.ok
         THEN [r |-> Err("Failed to get dynamic resource"), calls |-> 1]
         ELSE [r |-> Ok([partitions |-> ScalePartitions(target_partitions, res.val.cpu),
                         memory |-> ScaleMem(memory_size, res.val.mem)]),
               calls |-> 1]
    ELSE [r |-> Ok([partitions |-> target_partitions, memory |-> memory_size]),
          calls |-> 0]

get_cpu_and_mem_limit(work_group, target_partitions, memory_size, res, cpu_limit_enabled) ==
    IF work_group # None /\ WorkGroupFromStr(work_group[1]).ok
    THEN IF ~res.ok
         THEN [r |-> Err("Failed to get dynamic resource"), calls |-> 1]
         ELSE [r |-> Ok([partitions |->
                             IF cpu_limit_enabled
                             THEN ScalePartitions(target_partitions, res.val.cpu)
                             ELSE target_partitions,
                         memory |-> ScaleMem(memory_size, res.val.mem)]),
               calls |-> 1]
    ELSE [r |-> Ok([partitions |-> target_partitions, memory |-> memory_size]),
          calls |-> 0]

(***************************************************************************)
(* create_session_config: the options it sets on the SessionConfig.        *)
(* bloom_filter_on_read is None when neither switch touches it.            *)
(***************************************************************************)
SessionOptions(target_partitions, sorted, c) ==
    [batch_size |-> "PARQUET_BATCH_SIZE",
     target_partitions |-> target_partitions,
     information_schema |-> TRUE,
     listing_table_ignore_subdirectory |-> FALSE,
     dialect |-> "PostgreSQL",
     bloom_filter_on_read |->
         IF c.bloom_filter_disabled_on_search THEN Some(FALSE)
         ELSE IF c.bloom_filter_enabled THEN Some(TRUE)
         ELSE None,
     split_file_groups_by_statistics |-> sorted,
     skip_physical_aggregate_schema_check |-> TRUE]

\* What the calls into the engine that read no argument of the model answer
\* in this call: SessionConfig::from_env() (line 176) and
\* RuntimeEnv::try_new(rn_config) (line 250) each succeed or fail.
Envs == [from_env_ok : BOOLEAN, try_new_ok : BOOLEAN]

MutSessionConfigNoFloor(sorted, target_partitions, c, env) ==
    IF ~env.from_env_ok
    THEN Err("from_env error")
    ELSE Ok(SessionOptions(
                IF target_partitions = 0 THEN c.cpu_num
                ELSE max(c.datafusion_min_partition_num, target_partitions),
                sorted, c))

create_session_config(sorted, target_partitions, c, env) ==
    LET tp1 == IF target_partitions = 0
               THEN c.cpu_num
               ELSE max(c.datafusion_min_partition_num, target_partitions)
        tp2 == IF tp1 = 0 THEN DATAFUSION_MIN_PARTITION ELSE tp1
    IN  IF ~env.from_env_ok
        THEN Err("from_env error")
        ELSE Ok(SessionOptions(tp2, sorted, c))

(***************************************************************************)
(* create_runtime_env: the object stores, the file statistics cache and    *)
(* the memory pool of the RuntimeEnv it returns.  MemoryPoolType::from_str *)
(* fails on any other string than the three pool names.                    *)
(***************************************************************************)
PoolStrings == {"greedy", "fair", "none", "bogus"}

MemoryPoolTypeFromStr(s) ==
    IF s \in {"greedy", "fair", "none"} THEN Ok(s) ELSE Err("invalid pool")

create_runtime_env(memory_limit, c, env) ==
    LET memory_size == max(DATAFUSION_MIN_MEM, memory_limit)
        mem_pool == MemoryPoolTypeFromStr(c.datafusion_memory_pool)
    IN  IF ~mem_pool.ok
        THEN Err("Invalid datafusion memory pool type")
        ELSE IF ~env.try_new_ok
        THEN Err("runtime env error")
        ELSE Ok([object_stores |-> {"memory", "wal", "tmpfs"},
                 file_statistics_cache |->
                     c.datafusion_file_stat_cache_max_entries > 0,
                 pool |-> IF mem_pool.val = "greedy"
                            THEN Some([kind |-> "Greedy", size |-> memory_size])
                          ELSE IF mem_pool.val = "fair"
                            THEN Some([kind |-> "Fair", size |-> memory_size])
                          ELSE None])

(***************************************************************************)
(* prepare_datafusion_context: the Result<SessionContext> and the number   *)
(* of resource lookups made.                                               *)
(***************************************************************************)
prepare_datafusion_context(work_group, optimizer_rules, sorted, target_partitions, c, res, env) ==
    LET lim == IF c.enterprise
               THEN get_cpu_and_mem_limit(work_group, target_partitions,
                                          c.datafusion_max_size, res,
                                          c.cpu_limit_enabled)
               ELSE [r |-> Ok([partitions |-> target_partitions,
                               memory |-> c.datafusion_max_size]),
                     calls |-> 0]
    IN  IF ~lim.r.ok
        THEN [r |-> lim.r, calls |-> lim.calls]
        ELSE LET session_config ==
                     create_session_config(sorted, lim.r.val.partitions, c, env)
                 runtime_env == create_runtime_env(lim.r.val.memory, c, env)
             IN  IF ~session_config.ok
                 THEN [r |-> session_config, calls |-> lim.calls]
                 ELSE IF ~runtime_env.ok
                 THEN [r |-> runtime_env, calls |-> lim.calls]
                 ELSE [r |-> Ok([config |-> session_config.val,
                                 runtime_env |-> runtime_env.val,
                                 optimizer_rules |-> optimizer_rules,
                                 join_reorder_rule |-> optimizer_rules # {},
                                 openobserve_query_planner |->
                                     c.feature_join_match_one_enabled,
                                 udfs |-> {},
                                 udafs |-> {},
                                 tables |-> {}]),
                       calls |-> lim.calls]

(***************************************************************************)
(* Schemas.  A field is a name, a data type and a nullable flag; a schema  *)
(* is a sequence of fields.                                                *)
(***************************************************************************)
MaxFields == 2

FieldNames == {"_timestamp", "a"}

DataTypes == {"Int64", "Utf8"}

Fields == [name : FieldNames, data_type : DataTypes, nullable : BOOLEAN]

Schemas == UNION {[1..n -> Fields] : n \in 0..MaxFields}

\* Schema::field_with_name: the first field of that name, or an error.
field_with_name(sch, name) ==
    IF \E i \in 1..Len(sch) : sch[i].name = name
    THEN Ok(sch[CHOOSE i \in 1..Len(sch) :
                    /\ sch[i].name = name
                    /\ \A j \in 1..(i - 1) : sch[j].name # name])
    ELSE Err("field not found")

\* schema.hash_key(): a content hash of the field list.
FieldCode(f) ==
    (IF f.name = "_timestamp" THEN 1 ELSE 2)
        + (IF f.data_type = "Int64" THEN 0 ELSE 2)
        + (IF f.nullable THEN 4 ELSE 0)

RECURSIVE HashFold(_, _)
HashFold(sch, i) ==
    IF i = 0 THEN 7 ELSE (HashFold(sch, i - 1) * 31 + FieldCode(sch[i])) % 65521

hash_key(sch) == HashFold(sch, Len(sch))

\* storage::file_list::set(session_id, schema_key, files): the list of the
\* session's files is stored under (session id, schema key), replacing what
\* was stored there.
file_list_set(fl, id, key, fs) ==
    [k \in DOMAIN fl \cup {<<id, key>>} |->
        IF k = <<id, key>> THEN fs ELSE fl[k]]

(***************************************************************************)
(* create_parquet_table                                                    *)
(***************************************************************************)
StorageTypes == {"Memory", "Wal", "Tmpfs", "Other"}

\* lines 372-389: the partition count of the listing options
cpt_target_partitions(sess, c, res) ==
    LET tp0 == IF sess.target_partitions = 0
               THEN c.cpu_num
               ELSE max(c.datafusion_min_partition_num, sess.target_partitions)
        lim == IF c.enterprise
               THEN get_cpu_and_mem_limit(sess.work_group, tp0, 0, res,
                                          c.cpu_limit_enabled)
               ELSE [r |-> Ok([partitions |-> tp0, memory |-> 0]), calls |-> 0]
    IN  IF ~lim.r.ok
        THEN lim
        ELSE [r |-> Ok(IF lim.r.val.partitions = 0
                       THEN DATAFUSION_MIN_PARTITION
                       ELSE lim.r.val.partitions),
              calls |-> lim.calls]

\* lines 409-416: format!("memory:///{}/schema={}/", ..), format!("wal:///..")
\* and format!("tmpfs:///{}/", ..), as the sequence of the pieces.
cpt_prefix(storage_type, id, schema_key) ==
    IF storage_type = "Memory"
    THEN <<"memory", ":///", id, "/schema=", schema_key, "/">>
    ELSE IF storage_type = "Wal"
    THEN <<"wal", ":///", id, "/schema=", schema_key, "/">>
    ELSE <<"tmpfs", ":///", id, "/">>

\* lines 433-453: the schema given to the listing configuration
MutNormalizeRewritesAll(sch, c) ==
    [i \in 1..Len(sch) |->
        IF sch[i].name = c.column_timestamp
        THEN [name |-> c.column_timestamp, data_type |-> "Int64",
              nullable |-> FALSE]
        ELSE sch[i]]

normalize_schema(sch, c) ==
    LET timestamp_field == field_with_name(sch, c.column_timestamp)
    IN  IF timestamp_field.ok /\ timestamp_field.val.nullable
        THEN [i \in 1..Len(sch) |->
                 IF sch[i].name = c.column_timestamp
                 THEN [name |-> c.column_timestamp, data_type |-> "Int64",
                       nullable |-> FALSE]
                 ELSE sch[i]]
        ELSE sch

\* Some(sort order) of the listing options, lines 398-406
cpt_sort_order(sorted, c) ==
    IF sorted
    THEN Some([column |-> c.column_timestamp, asc |-> FALSE,
               nulls_first |-> FALSE])
    ELSE None

Lookups(n) == [i \in 1..n |-> [call |-> "get_dynamic_resource"]]

\* the answer to the next get_dynamic_resource call of this request
NextAnswer ==
    LET n == Cardinality({i \in 1..Len(trace) :
                             trace[i].call = "get_dynamic_resource"}) + 1
    IN  resource[IF n <= Len(resource) THEN n ELSE Len(resource)]

Return(r) ==
    /\ ret' = Some(r)
    /\ pc' = "done"

\* lines 371-389, up to the end of the await on get_cpu_and_mem_limit
CptPartitions ==
    /\ pc = "cpt_start"
    /\ LET tp == cpt_target_partitions(session, cfg, NextAnswer)
       IN  /\ trace' = trace \o Lookups(tp.calls)
           /\ IF tp.r.ok
              THEN /\ cpt' = [cpt EXCEPT !.target_partitions = tp.r.val]
                   /\ pc' = "cpt_stage"
                   /\ ret' = ret
              ELSE /\ Return(tp.r)
                   /\ cpt' = cpt
    /\ UNCHANGED <<op, args, cfg, session, sorted_by_time, schema, files, resource,
                   gov, ctx, table, file_list, file_list0, merge>>

\* lines 408-414: Memory and Wal stage the file list, then format the prefix
MutCptStageSkips ==
    /\ pc = "cpt_stage"
    /\ session.storage_type \in {"Memory", "Wal"}
    /\ cpt' = [cpt EXCEPT !.prefix =
                  Some(cpt_prefix(session.storage_type, session.id,
                                  hash_key(schema)))]
    /\ pc' = "cpt_build"
    /\ UNCHANGED <<op, args, cfg, session, sorted_by_time, schema, files, resource,
                   gov, ctx, table, file_list, file_list0, trace, ret, merge>>

CptStage ==
    /\ pc = "cpt_stage"
    /\ session.storage_type \in {"Memory", "Wal"}
    /\ LET schema_key == hash_key(schema)
       IN  /\ file_list' = file_list_set(file_list, session.id, schema_key, files)
           /\ trace' = Append(trace, [call |-> "file_list::set",
                                      id |-> session.id,
                                      schema_key |-> schema_key])
           /\ cpt' = [cpt EXCEPT !.prefix =
                         Some(cpt_prefix(session.storage_type, session.id,
                                         schema_key))]
    /\ pc' = "cpt_build"
    /\ UNCHANGED <<op, args, cfg, session, sorted_by_time, schema, files, resource,
                   gov, ctx, table, file_list0, ret, merge>>

\* lines 415-416: Tmpfs only formats the prefix
CptTmpfs ==
    /\ pc = "cpt_stage"
    /\ session.storage_type = "Tmpfs"
    /\ cpt' = [cpt EXCEPT !.prefix =
                  Some(cpt_prefix("Tmpfs", session.id, hash_key(schema)))]
    /\ pc' = "cpt_build"
    /\ UNCHANGED <<op, args, cfg, session, sorted_by_time, schema, files, resource,
                   gov, ctx, table, file_list, file_list0, trace, ret, merge>>

\* lines 417-422: any other storage type
MutCptUnsupportedStages ==
    /\ pc = "cpt_stage"
    /\ session.storage_type \notin {"Memory", "Wal", "Tmpfs"}
    /\ file_list' = file_list_set(file_list, session.id, hash_key(schema), files)
    /\ trace' = Append(trace, [call |-> "file_list::set", id |-> session.id,
                               schema_key |-> hash_key(schema)])
    /\ Return(Err("Unsupported storage_type"))
    /\ UNCHANGED <<op, args, cfg, session, sorted_by_time, schema, files, resource,
                   gov, ctx, table, file_list0, cpt, merge>>

CptUnsupported ==
    /\ pc = "cpt_stage"
    /\ session.storage_type \notin {"Memory", "Wal", "Tmpfs"}
    /\ Return(Err("Unsupported storage_type"))
    /\ UNCHANGED <<op, args, cfg, session, sorted_by_time, schema, files, resource,
                   gov, ctx, table, file_list, file_list0, trace, cpt, merge>>

\* lines 423-430: ListingTableUrl::parse refuses the prefix
CptUrlError ==
    /\ pc = "cpt_build"
    /\ Return(Err("ListingTableUrl error"))
    /\ UNCHANGED <<op, args, cfg, session, sorted_by_time, schema, files, resource,
                   gov, ctx, table, file_list, file_list0, trace, cpt, merge>>

\* line 455: NewListingTable::try_new fails
CptTableError ==
    /\ pc = "cpt_build"
    /\ trace' = Append(trace, [call |-> "ListingTableConfig::new",
                               prefix |-> cpt.prefix[1]])
    /\ Return(Err("NewListingTable error"))
    /\ UNCHANGED <<op, args, cfg, session, sorted_by_time, schema, files, resource,
                   gov, ctx, table, file_list, file_list0, cpt, merge>>

\* the file_stat_cache argument is Some: register_table passes the cache of
\* the context it built (lines 344-352); a direct call is made with None
file_stat_cache == ctx # None /\ ctx[1].runtime_env.file_statistics_cache

\* lines 432-459: the listing configuration over the prefix, and the table
CptBuild ==
    /\ pc = "cpt_build"
    /\ trace' = Append(trace, [call |-> "ListingTableConfig::new",
                               prefix |-> cpt.prefix[1]])
    /\ table' = Some([prefix |-> cpt.prefix[1],
                      target_partitions |-> cpt.target_partitions,
                      file_extension |-> ".parquet",
                      collect_stat |-> TRUE,
                      file_sort_order |-> cpt_sort_order(sorted_by_time, cfg),
                      schema |-> normalize_schema(schema, cfg),
                      with_cache |-> /\ session.storage_type # "Tmpfs"
                                     /\ file_stat_cache])
    /\ IF op = "register_table"
       THEN pc' = "reg_register" /\ ret' = ret
       ELSE Return(Ok("table"))
    /\ UNCHANGED <<op, args, cfg, session, sorted_by_time, schema, files, resource,
                   gov, ctx, file_list, file_list0, cpt, merge>>

(***************************************************************************)
(* register_table                                                          *)
(***************************************************************************)
\* lines 331-342: the context
RegPrepare ==
    /\ pc = "reg_start"
    /\ \E env \in Envs :
          LET c == prepare_datafusion_context(session.work_group, {},
                                              sorted_by_time,
                                              session.target_partitions, cfg,
                                              NextAnswer, env)
          IN  /\ trace' = trace \o Lookups(c.calls)
              /\ IF c.r.ok
                 THEN /\ ctx' = Some(c.r.val)
                      /\ pc' = "cpt_start"
                      /\ ret' = ret
                 ELSE /\ Return(c.r)
                      /\ ctx' = ctx
    /\ UNCHANGED <<op, args, cfg, session, sorted_by_time, schema, files, resource,
                   gov, table, file_list, file_list0, cpt, merge>>

\* lines 355-357: ctx.register_table(table_name, table)?
RegRegister ==
    /\ pc = "reg_register"
    /\ ctx' = Some([ctx[1] EXCEPT !.tables = @ \cup {args.table_name}])
    /\ Return(Ok("ctx"))
    /\ UNCHANGED <<op, args, cfg, session, sorted_by_time, schema, files, resource,
                   gov, table, file_list, file_list0, trace, cpt, merge>>

RegRegisterError ==
    /\ pc = "reg_register"
    /\ Return(Err("register_table error"))
    /\ UNCHANGED <<op, args, cfg, session, sorted_by_time, schema, files, resource,
                   gov, ctx, table, file_list, file_list0, trace, cpt, merge>>

(***************************************************************************)
(* register_udf(ctx, org_id): a function without an await.  A registered   *)
(* function is named by the static it is cloned from (lines 286-312) or,   *)
(* for a transform of the organisation, by the transform's name.           *)
(***************************************************************************)
BuiltinUdfs ==
    {"STR_MATCH_UDF", "STR_MATCH_IGNORE_CASE_UDF", "FUZZY_MATCH_UDF",
     "REGEX_MATCH_UDF", "REGEX_NOT_MATCH_UDF", "REGEXP_MATCH_TO_FIELDS_UDF",
     "REGEX_MATCHES_UDF", "TIME_RANGE_UDF", "DATE_FORMAT_UDF",
     "STRING_TO_ARRAY_V2_UDF", "ARR_ZIP_UDF", "ARR_INDEX_UDF",
     "ARR_DESCENDING_UDF", "ARR_JOIN_UDF", "ARR_COUNT_UDF", "ARR_SORT_UDF",
     "CAST_TO_ARR_UDF", "SPATH_UDF", "TO_ARR_STRING", "HISTOGRAM_UDF",
     "MATCH_ALL_RAW_UDF", "MATCH_ALL_RAW_IGNORE_CASE_UDF", "MATCH_ALL_UDF",
     "FUZZY_MATCH_ALL_UDF"}

BuiltinUdafs == {"PercentileCont"}

\* get_all_transform(org_id), line 314: args.transforms is what it answers
\* for args.org_id, an error or the list of the organisation's transforms
get_all_transform(org_id) == args.transforms

\* lines 285-320: the built-in functions are registered on the caller's
\* context before the transforms are looked up, so they stay registered
\* when the lookup fails
register_udf ==
    /\ pc = "udf_start"
    /\ LET udf_list == get_all_transform(args.org_id)
       IN  /\ ctx' = Some([ctx[1] EXCEPT
                              !.udfs = @ \cup BuiltinUdfs \cup
                                  (IF udf_list.ok
                                   THEN {udf_list.val[i] :
                                            i \in 1..Len(udf_list.val)}
                                   ELSE {}),
                              !.udafs = @ \cup BuiltinUdafs])
           /\ Return(IF udf_list.ok THEN Ok("unit") ELSE udf_list)
    /\ UNCHANGED <<op, args, cfg, session, sorted_by_time, schema, files, resource,
                   gov, table, file_list, file_list0, trace, cpt, merge>>

(***************************************************************************)
(* Direct calls of prepare_datafusion_context and get_cpu_and_mem_limit    *)
(***************************************************************************)
CtxPrepare ==
    /\ pc = "ctx_start"
    /\ \E env \in Envs :
          LET c == prepare_datafusion_context(session.work_group, {},
                                              sorted_by_time,
                                              session.target_partitions, cfg,
                                              NextAnswer, env)
          IN  /\ trace' = trace \o Lookups(c.calls)
              /\ ctx' = IF c.r.ok THEN Some(c.r.val) ELSE ctx
              /\ Return(IF c.r.ok THEN Ok("ctx") ELSE c.r)
    /\ UNCHANGED <<op, args, cfg, session, sorted_by_time, schema, files, resource,
                   gov, table, file_list, file_list0, cpt, merge>>

GovCall ==
    /\ pc = "gov_start"
    /\ LET g == get_cpu_and_mem_limit(gov.work_group, gov.target_partitions,
                                      gov.memory_size, NextAnswer,
                                      cfg.cpu_limit_enabled)
       IN  /\ trace' = trace \o Lookups(g.calls)
           /\ Return(g.r)
    /\ UNCHANGED <<op, args, cfg, session, sorted_by_time, schema, files, resource,
                   gov, ctx, table, file_list, file_list0, cpt, merge>>

(***************************************************************************)
(* merge_parquet_files.  A row of table "tbl" is a record over the column  *)
(* names of the schema; a nullable column holds None or Some(value).       *)
(***************************************************************************)
MaxRows == 2

\* the largest number of rows the result stream hands over in one batch
BatchRows == 2

\* DISTINCT_STREAM_PREFIX and stream names, as sequences of name pieces
DISTINCT_STREAM_PREFIX == <<"distinct_values", "_">>

starts_with(name, prefix) ==
    /\ Len(name) >= Len(prefix)
    /\ \A i \in 1..Len(prefix) : name[i] = prefix[i]

Names(sch) == [i \in 1..Len(sch) |-> sch[i].name]

NameSet(sch) == {sch[i].name : i \in 1..Len(sch)}

NotTimestampNorCount(f, c) == f.name # c.column_timestamp /\ f.name # "count"

\* lines 84-113: the query chosen for the stream.  fields is the list that
\* the distinct-values query selects and groups by.
MutSqlGroupsByCount(stream_type, stream_name, sch, c) ==
    IF stream_type = "Index"
    THEN [kind |-> "index", fields |-> <<>>]
    ELSE IF c.distinct_values_hourly
              /\ stream_type = "Metadata"
              /\ starts_with(stream_name, DISTINCT_STREAM_PREFIX)
    THEN [kind |-> "distinct",
          fields |-> Names(SelectSeq(sch,
                         LAMBDA f : f.name # c.column_timestamp))]
    ELSE [kind |-> "default", fields |-> <<>>]

merge_sql(stream_type, stream_name, sch, c) ==
    IF stream_type = "Index"
    THEN [kind |-> "index", fields |-> <<>>]
    ELSE IF c.distinct_values_hourly
              /\ stream_type = "Metadata"
              /\ starts_with(stream_name, DISTINCT_STREAM_PREFIX)
    THEN [kind |-> "distinct",
          fields |-> Names(SelectSeq(sch, LAMBDA f : NotTimestampNorCount(f, c)))]
    ELSE [kind |-> "default", fields |-> <<>>]

Range(s) == {s[i] : i \in 1..Len(s)}

\* ORDER BY <timestamp> DESC: the orders of the rows in which the timestamps
\* never increase.  Rows of equal timestamp come in any order.
IsSortedDesc(s, ts) ==
    \A i \in 1..Len(s) : \A j \in (i + 1)..Len(s) : s[i][ts] >= s[j][ts]

Orders(n) == {p \in [1..n -> 1..n] : \A i, j \in 1..n : p[i] = p[j] => i = j}

OrderByDesc(rows, ts) ==
    {s \in {[i \in 1..Len(rows) |-> rows[p[i]]] : p \in Orders(Len(rows))} :
        IsSortedDesc(s, ts)}

\* deleted IS TRUE
IsTrue(v) == v = Some(TRUE)

\* file_name NOT IN (SELECT file_name FROM tbl WHERE deleted IS TRUE ..).
\* With a NULL on either side the engine either follows SQL's three-valued
\* NOT IN (null_aware: the predicate is unknown and the row is dropped) or
\* plans the subquery as an anti join on equality (a NULL matches nothing
\* and the row is kept), depending on its version.
NotInDeleted(r, tbl, null_aware) ==
    LET deleted_names == {tbl[i].file_name : i \in
                             {k \in 1..Len(tbl) : IsTrue(tbl[k].deleted)}}
    IN  IF deleted_names = {} THEN TRUE
        ELSE IF r.file_name = None THEN ~null_aware
        ELSE IF r.file_name \in deleted_names THEN FALSE
        ELSE IF None \in deleted_names THEN ~null_aware
        ELSE TRUE

\* line 86: SELECT * FROM tbl WHERE file_name NOT IN (..) ORDER BY ts DESC
MutIndexQueryKeepsDeleted(tbl, ts, null_aware) ==
    OrderByDesc(SelectSeq(tbl, LAMBDA r : ~IsTrue(r.deleted)), ts)

IndexQuery(tbl, ts, null_aware) ==
    OrderByDesc(SelectSeq(tbl, LAMBDA r : NotInDeleted(r, tbl, null_aware)), ts)

\* line 101: SELECT MIN(ts) AS ts, SUM(count) as count, <fields> FROM tbl
\*           GROUP BY <fields> ORDER BY ts DESC
Key(r, fields) == [f \in Range(fields) |-> r[f]]

RECURSIVE SumCount(_, _, _)
SumCount(tbl, k, fields) ==
    IF tbl = <<>> THEN 0
    ELSE (IF Key(Head(tbl), fields) = k THEN Head(tbl)["count"] ELSE 0)
            + SumCount(Tail(tbl), k, fields)

MinTimestamp(tbl, k, fields, ts) ==
    CHOOSE m \in {tbl[i][ts] : i \in 1..Len(tbl)} :
        /\ \E i \in 1..Len(tbl) : Key(tbl[i], fields) = k /\ tbl[i][ts] = m
        /\ \A i \in 1..Len(tbl) : Key(tbl[i], fields) = k => tbl[i][ts] >= m

GroupRow(tbl, k, fields, ts) ==
    [f \in {ts, "count"} \cup Range(fields) |->
        IF f = ts THEN MinTimestamp(tbl, k, fields, ts)
        ELSE IF f = "count" THEN SumCount(tbl, k, fields)
        ELSE k[f]]

DistinctQuery(tbl, fields, ts) ==
    LET groups == {GroupRow(tbl, Key(tbl[i], fields), fields, ts) :
                      i \in 1..Len(tbl)}
        n == Cardinality(groups)
    IN  {s \in [1..n -> groups] :
            /\ \A i, j \in 1..n : s[i] = s[j] => i = j
            /\ IsSortedDesc(s, ts)}

\* lines 125-127: the logical and physical plan of the query.  Planning
\* fails when the query names a column the schema lacks, and the
\* distinct-values query does not parse with an empty field list.
Plan(sql, sch, c) ==
    LET ts == c.column_timestamp
        have == NameSet(sch)
    IN  IF sql.kind = "index"
        THEN IF {ts, "file_name", "deleted"} \subseteq have
             THEN Ok(Names(sch)) ELSE Err("plan error")
        ELSE IF sql.kind = "distinct"
        THEN IF {ts, "count"} \subseteq have /\ sql.fields # <<>>
             THEN Ok(<<ts, "count">> \o sql.fields) ELSE Err("plan error")
        ELSE IF ts \in have THEN Ok(Names(sch)) ELSE Err("plan error")

\* the row sequences the planned query can produce
Execute(sql, tbl, c, null_aware) ==
    IF sql.kind = "index" THEN IndexQuery(tbl, c.column_timestamp, null_aware)
    ELSE IF sql.kind = "distinct"
    THEN DistinctQuery(tbl, sql.fields, c.column_timestamp)
    ELSE OrderByDesc(tbl, c.column_timestamp)

\* lines 84-120: the query text, then the context
MergePrepare ==
    /\ pc = "merge_start"
    /\ merge' = [merge EXCEPT !.sql =
                     Some(merge_sql(merge.stream_type, merge.stream_name,
                                    schema, cfg))]
    /\ \E env \in Envs :
          LET c == prepare_datafusion_context(None, {}, TRUE, cfg.cpu_num, cfg,
                                              NextAnswer, env)
          IN  IF c.r.ok
              THEN /\ ctx' = Some(c.r.val)
                   /\ pc' = "merge_register"
                   /\ ret' = ret
              ELSE /\ Return(c.r)
                   /\ ctx' = ctx
    /\ UNCHANGED <<op, args, cfg, session, sorted_by_time, schema, files, resource,
                   gov, table, file_list, file_list0, trace, cpt>>

\* line 122: NewUnionTable::try_new(schema.clone(), tables)? fails
MergeUnionTableError ==
    /\ pc = "merge_register"
    /\ Return(Err("union table error"))
    /\ UNCHANGED <<op, args, cfg, session, sorted_by_time, schema, files, resource,
                   gov, ctx, table, file_list, file_list0, trace, cpt, merge>>

\* line 123: ctx.register_table("tbl", union_table)? fails
MergeRegisterError ==
    /\ pc = "merge_register"
    /\ Return(Err("register_table error"))
    /\ UNCHANGED <<op, args, cfg, session, sorted_by_time, schema, files, resource,
                   gov, ctx, table, file_list, file_list0, trace, cpt, merge>>

\* lines 122-123: the union table is registered as "tbl"
MergeRegister ==
    /\ pc = "merge_register"
    /\ ctx' = Some([ctx[1] EXCEPT !.tables = @ \cup {"tbl"}])
    /\ pc' = "merge_plan"
    /\ UNCHANGED <<op, args, cfg, session, sorted_by_time, schema, files, resource,
                   gov, table, file_list, file_list0, trace, ret, cpt, merge>>

\* line 125: create_logical_plan(&sql).await succeeds
MergePlan ==
    /\ pc = "merge_plan"
    /\ Plan(merge.sql[1], schema, cfg).ok
    /\ pc' = "merge_physical"
    /\ UNCHANGED <<op, args, cfg, session, sorted_by_time, schema, files, resource,
                   gov, ctx, table, file_list, file_list0, trace, ret, cpt, merge>>

\* line 125: create_logical_plan(&sql).await fails
MergePlanError ==
    /\ pc = "merge_plan"
    /\ ~Plan(merge.sql[1], schema, cfg).ok
    /\ Return(Plan(merge.sql[1], schema, cfg))
    /\ UNCHANGED <<op, args, cfg, session, sorted_by_time, schema, files, resource,
                   gov, ctx, table, file_list, file_list0, trace, cpt, merge>>

\* line 126: create_physical_plan(&plan).await fails
MergePhysicalPlanError ==
    /\ pc = "merge_physical"
    /\ Return(Err("physical plan error"))
    /\ UNCHANGED <<op, args, cfg, session, sorted_by_time, schema, files, resource,
                   gov, ctx, table, file_list, file_list0, trace, cpt, merge>>

\* lines 126-132: the physical plan and its schema, the writer, the stream
MergeExecute ==
    /\ pc = "merge_physical"
    /\ \E out \in Execute(merge.sql[1], merge.tbl, cfg, merge.null_aware) :
          merge' = [merge EXCEPT !.out_schema = Plan(merge.sql[1], schema, cfg).val,
                                 !.output = out,
                                 !.pending = out,
                                 !.writer = "open"]
    /\ pc' = "merge_loop"
    /\ UNCHANGED <<op, args, cfg, session, sorted_by_time, schema, files, resource,
                   gov, ctx, table, file_list, file_list0, trace, ret, cpt>>

\* line 132: execute_stream(physical_plan, ctx.task_ctx())? fails
MergeExecuteError ==
    /\ pc = "merge_physical"
    /\ merge' = [merge EXCEPT !.out_schema = Plan(merge.sql[1], schema, cfg).val,
                             !.writer = "open"]
    /\ Return(Err("execute_stream error"))
    /\ UNCHANGED <<op, args, cfg, session, sorted_by_time, schema, files, resource,
                   gov, ctx, table, file_list, file_list0, trace, cpt>>

Take(s, k) == SubSeq(s, 1, k)

Drop(s, k) == SubSeq(s, k + 1, Len(s))

BatchSizes == 1..(IF Len(merge.pending) < BatchRows
                  THEN Len(merge.pending) ELSE BatchRows)

\* line 134: batch_stream.try_next().await answers Ok(Some(batch))
MergeTryNext ==
    /\ pc = "merge_loop"
    /\ \E k \in BatchSizes :
          merge' = [merge EXCEPT !.batch = Some(Take(merge.pending, k)),
                                 !.pending = Drop(@, k)]
    /\ pc' = "merge_write"
    /\ UNCHANGED <<op, args, cfg, session, sorted_by_time, schema, files, resource,
                   gov, ctx, table, file_list, file_list0, trace, ret, cpt>>

\* lines 135-140: writer.write(&batch).await succeeds
MergeWrite ==
    /\ pc = "merge_write"
    /\ merge' = [merge EXCEPT !.buf = @ \o merge.batch[1], !.batch = None]
    /\ trace' = Append(trace, [call |-> "write", ok |-> TRUE,
                               batch |-> merge.batch[1]])
    /\ pc' = "merge_loop"
    /\ UNCHANGED <<op, args, cfg, session, sorted_by_time, schema, files, resource,
                   gov, ctx, table, file_list, file_list0, ret, cpt>>

\* lines 136-139: writer.write(&batch).await fails
MutMergeWriteErrorGoesOn ==
    /\ pc = "merge_write"
    /\ merge' = [merge EXCEPT !.batch = None]
    /\ trace' = Append(trace, [call |-> "write", ok |-> FALSE,
                               batch |-> merge.batch[1]])
    /\ pc' = "merge_loop"
    /\ UNCHANGED <<op, args, cfg, session, sorted_by_time, schema, files, resource,
                   gov, ctx, table, file_list, file_list0, ret, cpt>>

MergeWriteError ==
    /\ pc = "merge_write"
    /\ trace' = Append(trace, [call |-> "write", ok |-> FALSE,
                               batch |-> merge.batch[1]])
    /\ Return(Err("write error"))
    /\ UNCHANGED <<op, args, cfg, session, sorted_by_time, schema, files, resource,
                   gov, ctx, table, file_list, file_list0, cpt, merge>>

\* lines 144-147: the stream yields an error
MergeStreamError ==
    /\ pc = "merge_loop"
    /\ Return(Err("execute stream error"))
    /\ UNCHANGED <<op, args, cfg, session, sorted_by_time, schema, files, resource,
                   gov, ctx, table, file_list, file_list0, trace, cpt, merge>>

\* lines 141-143: Ok(None)
MergeStreamEnd ==
    /\ pc = "merge_loop"
    /\ merge.pending = <<>>
    /\ pc' = "merge_close"
    /\ UNCHANGED <<op, args, cfg, session, sorted_by_time, schema, files, resource,
                   gov, ctx, table, file_list, file_list0, trace, ret, cpt,
                   merge>>

\* line 150: writer.close().await?
MergeClose ==
    /\ pc = "merge_close"
    /\ merge' = [merge EXCEPT !.writer = "closed"]
    /\ trace' = Append(trace, [call |-> "close", ok |-> TRUE])
    /\ pc' = "merge_deregister"
    /\ UNCHANGED <<op, args, cfg, session, sorted_by_time, schema, files, resource,
                   gov, ctx, table, file_list, file_list0, ret, cpt>>

MergeCloseError ==
    /\ pc = "merge_close"
    /\ trace' = Append(trace, [call |-> "close", ok |-> FALSE])
    /\ Return(Err("close error"))
    /\ UNCHANGED <<op, args, cfg, session, sorted_by_time, schema, files, resource,
                   gov, ctx, table, file_list, file_list0, cpt, merge>>

\* lines 152-160: ctx.deregister_table("tbl")?, drop(ctx), Ok((schema, buf))
MergeDeregister ==
    /\ pc = "merge_deregister"
    /\ trace' = Append(trace, [call |-> "deregister_table", ok |-> TRUE])
    /\ ctx' = None
    /\ Return(Ok([schema |-> merge.out_schema, buf |-> merge.buf]))
    /\ UNCHANGED <<op, args, cfg, session, sorted_by_time, schema, files, resource,
                   gov, table, file_list, file_list0, cpt, merge>>

MergeDeregisterError ==
    /\ pc = "merge_deregister"
    /\ trace' = Append(trace, [call |-> "deregister_table", ok |-> FALSE])
    /\ Return(Err("deregister error"))
    /\ UNCHANGED <<op, args, cfg, session, sorted_by_time, schema, files, resource,
                   gov, ctx, table, file_list, file_list0, cpt, merge>>

(***************************************************************************)
(* Initial states: one entry point is called with arguments and a          *)
(* configuration drawn from the sets below; what the entry point does not  *)
(* read is held at a fixed value.                                          *)
(***************************************************************************)
EmptyFileList == [k \in {} |-> <<>>]

StaleFileList == [k \in {<<"s0", 7>>} |-> <<"old.parquet">>]

BaseCfg ==
    [cpu_num |-> 2,
     datafusion_min_partition_num |-> 2,
     datafusion_max_size |-> DATAFUSION_MIN_MEM,
     datafusion_memory_pool |-> "greedy",
     enterprise |-> TRUE,
     cpu_limit_enabled |-> TRUE,
     distinct_values_hourly |-> FALSE,
     bloom_filter_enabled |-> TRUE,
     bloom_filter_disabled_on_search |-> FALSE,
     datafusion_file_stat_cache_max_entries |-> 100000,
     feature_join_match_one_enabled |-> FALSE,
     column_timestamp |-> "_timestamp"]

BaseSession ==
    [id |-> "s1", work_group |-> None, target_partitions |-> 0,
     storage_type |-> "Memory"]

BaseSchema ==
    <<[name |-> "_timestamp", data_type |-> "Int64", nullable |-> FALSE]>>

NoGov == [work_group |-> None, target_partitions |-> 0, memory_size |-> 0]

NoCpt == [target_partitions |-> 0, prefix |-> None]

NoMerge ==
    [stream_type |-> "Logs", stream_name |-> <<"default">>, tbl |-> <<>>,
     null_aware |-> FALSE, sql |-> None, out_schema |-> <<>>,
     output |-> <<>>, pending |-> <<>>, batch |-> None, buf |-> <<>>,
     writer |-> "none"]

NoArgs == [table_name |-> "t1", org_id |-> "default", transforms |-> Ok(<<>>)]

Idle ==
    /\ ctx = None
    /\ table = None
    /\ trace = <<>>
    /\ ret = None
    /\ cpt = NoCpt
    /\ file_list0 = file_list

\* get_cpu_and_mem_limit(work_group, target_partitions, memory_size)
GovMemSizes == {0, 1000, 1001, 12345}

InitGov ==
    /\ op = "get_cpu_and_mem_limit"
    /\ pc = "gov_start"
    /\ gov \in [work_group : WorkGroupArgs,
                target_partitions : 0..MaxNominalPartitions,
                memory_size : GovMemSizes]
    /\ \E r \in Resources : resource = <<r>>
    /\ \E e \in BOOLEAN : cfg = [BaseCfg EXCEPT !.cpu_limit_enabled = e]
    /\ session = BaseSession
    /\ sorted_by_time = FALSE
    /\ schema = BaseSchema
    /\ files = <<>>
    /\ file_list = EmptyFileList
    /\ merge = NoMerge
    /\ args = NoArgs
    /\ Idle

\* prepare_datafusion_context(work_group, vec![], sorted_by_time, target_partitions)
CtxWorkGroups == {None, Some("bogus"), Some("short")}

CtxResources ==
    {Err("backend unavailable")}
        \cup {Ok([cpu |-> c, mem |-> m]) : c \in {1, 50, 100}, m \in {1, 100}}

CtxMemSizes == {0, DATAFUSION_MIN_MEM - 1, DATAFUSION_MIN_MEM + 1,
                2 * DATAFUSION_MIN_MEM}

InitCtx ==
    /\ op = "prepare_datafusion_context"
    /\ pc = "ctx_start"
    /\ \E wg \in CtxWorkGroups, tp \in 0..MaxTargetPartitions :
          session = [BaseSession EXCEPT !.work_group = wg,
                                        !.target_partitions = tp]
    /\ \E cn \in 0..MaxCpuNum, mp \in 0..MaxMinPartitionNum,
          ms \in CtxMemSizes, pool \in PoolStrings, ent \in BOOLEAN,
          e \in BOOLEAN :
          cfg = [BaseCfg EXCEPT !.cpu_num = cn,
                                !.datafusion_min_partition_num = mp,
                                !.datafusion_max_size = ms,
                                !.datafusion_memory_pool = pool,
                                !.enterprise = ent,
                                !.cpu_limit_enabled = e]
    /\ \E r \in CtxResources : resource = <<r>>
    /\ sorted_by_time \in BOOLEAN
    /\ gov = NoGov
    /\ schema = BaseSchema
    /\ files = <<>>
    /\ file_list = EmptyFileList
    /\ merge = NoMerge
    /\ args = NoArgs
    /\ Idle

\* register_table(session, schema, table_name, files, rules, sort_key)
RegResources ==
    {Err("backend unavailable")}
        \cup {Ok([cpu |-> c, mem |-> 100]) : c \in {1, 50, 100}}

InitReg ==
    /\ op = "register_table"
    /\ pc = "reg_start"
    /\ \E wg \in CtxWorkGroups, tp \in 0..MaxTargetPartitions,
          st \in StorageTypes :
          session = [BaseSession EXCEPT !.work_group = wg,
                                        !.target_partitions = tp,
                                        !.storage_type = st]
    /\ \E cn \in 0..MaxCpuNum, mp \in 0..MaxMinPartitionNum, ent \in BOOLEAN,
          e \in BOOLEAN :
          cfg = [BaseCfg EXCEPT !.cpu_num = cn,
                                !.datafusion_min_partition_num = mp,
                                !.enterprise = ent,
                                !.cpu_limit_enabled = e]
    /\ resource \in [1..2 -> RegResources]
    /\ \E n \in {"t1", "tbl"} : args = [NoArgs EXCEPT !.table_name = n]
    /\ sorted_by_time = TRUE
    /\ gov = NoGov
    /\ schema = BaseSchema
    /\ files = <<"f1.parquet">>
    /\ file_list = EmptyFileList
    /\ merge = NoMerge
    /\ Idle

\* create_parquet_table(session, schema, files, rules, sorted_by_time, ..)
InitTable ==
    /\ op = "create_parquet_table"
    /\ pc = "cpt_start"
    /\ \E id \in {"s1", "s2"}, wg \in {None, Some("short")},
          st \in StorageTypes :
          session = [BaseSession EXCEPT !.id = id,
                                        !.work_group = wg,
                                        !.storage_type = st]
    /\ cfg = BaseCfg
    /\ \E r \in {Err("backend unavailable"), Ok([cpu |-> 50, mem |-> 80])} :
          resource = <<r>>
    /\ sorted_by_time \in BOOLEAN
    /\ gov = NoGov
    /\ schema \in Schemas
    /\ files = <<"f1.parquet", "f2.parquet">>
    /\ file_list \in {EmptyFileList, StaleFileList}
    /\ merge = NoMerge
    /\ args = NoArgs
    /\ Idle

NextGov == GovCall

NextCtx == CtxPrepare

NextTable ==
    \/ CptPartitions
    \/ CptStage
    \/ CptTmpfs
    \/ CptUnsupported
    \/ CptUrlError
    \/ CptTableError
    \/ CptBuild

NextReg ==
    \/ RegPrepare
    \/ NextTable
    \/ RegRegister
    \/ RegRegisterError

SpecGov == InitGov /\ [][NextGov]_vars

SpecCtx == InitCtx /\ [][NextCtx]_vars

SpecTable == InitTable /\ [][NextTable]_vars

SpecReg == InitReg /\ [][NextReg]_vars

\* merge_parquet_files(stream_type, stream_name, schema, tables, ..)
Field(n, t, nullable) == [name |-> n, data_type |-> t, nullable |-> nullable]

IndexSchema ==
    <<Field("_timestamp", "Int64", FALSE), Field("file_name", "Utf8", TRUE),
      Field("deleted", "Boolean", TRUE)>>

IndexRows ==
    [_timestamp : {1, 2},
     file_name : {None, Some("a"), Some("b")},
     deleted : {None, Some(FALSE), Some(TRUE)}]

DistinctSchema1 ==
    <<Field("_timestamp", "Int64", FALSE), Field("count", "Int64", FALSE),
      Field("a", "Int64", FALSE)>>

DistinctRows1 == [_timestamp : {1, 2}, count : {1, 2}, a : {0, 1}]

DistinctSchema2 ==
    <<Field("a", "Int64", FALSE), Field("_timestamp", "Int64", FALSE),
      Field("count", "Int64", FALSE), Field("b", "Int64", FALSE)>>

DistinctRows2 == [a : {0, 1}, _timestamp : {1, 2}, count : {3}, b : {0, 1}]

NoFieldsSchema ==
    <<Field("_timestamp", "Int64", FALSE), Field("count", "Int64", FALSE)>>

NoFieldsRows == [_timestamp : {1, 2}, count : {1, 2}]

NoCountSchema ==
    <<Field("_timestamp", "Int64", FALSE), Field("a", "Int64", FALSE)>>

NoCountRows == [_timestamp : {1, 2}, a : {0, 1}]

Tables(rows) == UNION {[1..n -> rows] : n \in 0..MaxRows}

StreamNames ==
    {<<"distinct_values", "_", "logs", "_", "default">>,
     <<"default">>,
     <<"my", "_", "distinct_values", "_">>}

MergeIdle ==
    /\ op = "merge_parquet_files"
    /\ pc = "merge_start"
    /\ session = BaseSession
    /\ sorted_by_time = TRUE
    /\ gov = NoGov
    /\ resource = <<Err("backend unavailable")>>
    /\ files = <<>>
    /\ file_list = EmptyFileList
    /\ args = NoArgs
    /\ Idle

InitMergeIndex ==
    /\ MergeIdle
    /\ schema = IndexSchema
    /\ \E h \in BOOLEAN :
          cfg = [BaseCfg EXCEPT !.distinct_values_hourly = h]
    /\ \E t \in Tables(IndexRows), na \in BOOLEAN :
          merge = [NoMerge EXCEPT
                      !.stream_type = "Index",
                      !.stream_name = <<"distinct_values", "_", "logs">>,
                      !.tbl = t,
                      !.null_aware = na]

InitMergeOther ==
    /\ MergeIdle
    /\ \E h \in BOOLEAN, pool \in {"fair", "bogus"} :
          cfg = [BaseCfg EXCEPT !.distinct_values_hourly = h,
                                !.datafusion_memory_pool = pool]
    /\ \E st \in {"Metadata", "Logs"}, sn \in StreamNames,
          sr \in {<<DistinctSchema1, DistinctRows1>>,
                  <<DistinctSchema2, DistinctRows2>>,
                  <<NoFieldsSchema, NoFieldsRows>>,
                  <<NoCountSchema, NoCountRows>>} :
          /\ schema = sr[1]
          /\ \E t \in Tables(sr[2]) :
                merge = [NoMerge EXCEPT !.stream_type = st,
                                        !.stream_name = sn,
                                        !.tbl = t]

InitMerge == InitMergeIndex \/ InitMergeOther

NextMerge ==
    \/ MergePrepare
    \/ MergeUnionTableError
    \/ MergeRegisterError
    \/ MergeRegister
    \/ MergePlan
    \/ MergePlanError
    \/ MergePhysicalPlanError
    \/ MergeExecute
    \/ MergeExecuteError
    \/ MergeTryNext
    \/ MergeWrite
    \/ MergeWriteError
    \/ MergeStreamError
    \/ MergeStreamEnd
    \/ MergeClose
    \/ MergeCloseError
    \/ MergeDeregister
    \/ MergeDeregisterError

SpecMerge == InitMerge /\ [][NextMerge]_vars

\* get_cpu_and_mem_limit and prepare_datafusion_context, each called directly
InitGovCtx == InitGov \/ InitCtx

NextGovCtx ==
    \/ GovCall
    \/ CtxPrepare

SpecGovCtx == InitGovCtx /\ [][NextGovCtx]_vars

\* register_udf(ctx, org_id) on a context that prepare_datafusion_context
\* built, with or without functions registered on it before
MaxTransforms == 2

TransformNames == {"fn1", "fn2"}

TransformLists == UNION {[1..n -> TransformNames] : n \in 0..MaxTransforms}

UdfContexts ==
    {[prepare_datafusion_context(None, {}, s, tp, BaseCfg,
                                 Err("backend unavailable"),
                                 [from_env_ok |-> TRUE, try_new_ok |-> TRUE]).r.val
         EXCEPT !.udfs = u] :
        s \in BOOLEAN, tp \in 0..MaxTargetPartitions,
        u \in {{}, {"fn1"}, {"STR_MATCH_UDF", "fn3"}}}

InitUdf ==
    /\ op = "register_udf"
    /\ pc = "udf_start"
    /\ \E c \in UdfContexts : ctx = Some(c)
    /\ \E org \in {"default", "org2"},
          t \in {Err("get_all_transform error")}
                    \cup {Ok(l) : l \in TransformLists} :
          args = [NoArgs EXCEPT !.org_id = org, !.transforms = t]
    /\ cfg = BaseCfg
    /\ session = BaseSession
    /\ sorted_by_time = FALSE
    /\ gov = NoGov
    /\ resource = <<Err("backend unavailable")>>
    /\ schema = BaseSchema
    /\ files = <<>>
    /\ file_list = EmptyFileList
    /\ file_list0 = file_list
    /\ merge = NoMerge
    /\ table = None
    /\ trace = <<>>
    /\ ret = None
    /\ cpt = NoCpt

NextUdf == register_udf

SpecUdf == InitUdf /\ [][NextUdf]_vars

\* the whole program: any one of the entry points is called
Init == InitGov \/ InitCtx \/ InitReg \/ InitTable \/ InitMerge \/ InitUdf

Next == NextGov \/ NextCtx \/ NextReg \/ NextMerge \/ NextUdf

Spec == Init /\ [][Next]_vars

(***************************************************************************)
(* Properties                                                              *)
(***************************************************************************)
Resolvable(wg) == wg # None /\ WorkGroupFromStr(wg[1]).ok

SetCalls == {i \in 1..Len(trace) : trace[i].call = "file_list::set"}

ListingCalls == {i \in 1..Len(trace) : trace[i].call = "ListingTableConfig::new"}

LookupCalls == {i \in 1..Len(trace) : trace[i].call = "get_dynamic_resource"}

\* C1: a context built by prepare_datafusion_context never has a partition
\* count of 0, and a Greedy or Fair memory pool it holds has at least
\* DATAFUSION_MIN_MEM (256 MiB) bytes.
C1_ContextFloors ==
    ctx # None =>
        /\ ctx[1].config.target_partitions # 0
        /\ ctx[1].runtime_env.pool # None =>
              /\ ctx[1].runtime_env.pool[1].kind \in {"Greedy", "Fair"}
              /\ ctx[1].runtime_env.pool[1].size >= 268435456

\* The governor scaled the partitions down to 0 and the memory below the
\* floor, the configured cpu_num is 0, and the context holds 2 partitions and
\* a pool of exactly the floor.
C1_Witness ==
    /\ ctx # None
    /\ cfg.enterprise /\ cfg.cpu_limit_enabled
    /\ Resolvable(session.work_group) /\ resource[1].ok
    /\ session.target_partitions = 1 /\ resource[1].val.cpu = 50
    /\ cfg.cpu_num = 0
    /\ cfg.datafusion_max_size > DATAFUSION_MIN_MEM /\ resource[1].val.mem = 1
    /\ ctx[1].config.target_partitions = 2
    /\ ctx[1].runtime_env.pool # None
    /\ ctx[1].runtime_env.pool[1].size = 268435456

\* C2: for a resolvable workgroup whose lookup answers (cpu, mem),
\* get_cpu_and_mem_limit returns memory = floor(memory_size * mem / 100), and
\* partitions = floor(target_partitions * cpu / 100) when cpu_limit_enabled
\* is on, target_partitions when it is off; (8, 1000) with cpu = 50 and
\* mem = 80 gives (4, 800) when on and (8, 800) when off.
C2_GovernorScaling ==
    (op = "get_cpu_and_mem_limit" /\ pc = "done"
        /\ Resolvable(gov.work_group) /\ resource[1].ok) =>
        /\ ret # None /\ ret[1].ok
        /\ LET p == ret[1].val.partitions
               m == ret[1].val.memory
               cpu == resource[1].val.cpu
               mem == resource[1].val.mem
           IN  /\ m * 100 <= gov.memory_size * mem
               /\ gov.memory_size * mem < (m + 1) * 100
               /\ cfg.cpu_limit_enabled =>
                     /\ p * 100 <= gov.target_partitions * cpu
                     /\ gov.target_partitions * cpu < (p + 1) * 100
               /\ ~cfg.cpu_limit_enabled => p = gov.target_partitions
               /\ (gov.target_partitions = 8 /\ gov.memory_size = 1000
                      /\ cpu = 50 /\ mem = 80) =>
                     /\ m = 800
                     /\ p = IF cfg.cpu_limit_enabled THEN 4 ELSE 8

C2_Witness ==
    /\ op = "get_cpu_and_mem_limit" /\ pc = "done"
    /\ gov = [work_group |-> Some("short"), target_partitions |-> 8,
              memory_size |-> 1000]
    /\ resource = <<Ok([cpu |-> 50, mem |-> 80])>>
    /\ ~cfg.cpu_limit_enabled
    /\ ret = Some(Ok([partitions |-> 8, memory |-> 800]))

\* C3: get_cpu_and_mem_limit with an absent or unparsable workgroup name
\* returns Ok with the nominal pair and makes no resource lookup; with a
\* parsable name and a failing lookup it returns an error; and
\* prepare_datafusion_context then returns that error and builds no context.
C3_GovernorErrors ==
    /\ (op = "get_cpu_and_mem_limit" /\ pc = "done") =>
          /\ ~Resolvable(gov.work_group) =>
                /\ ret = Some(Ok([partitions |-> gov.target_partitions,
                                  memory |-> gov.memory_size]))
                /\ LookupCalls = {}
          /\ (Resolvable(gov.work_group) /\ ~resource[1].ok) =>
                /\ ret # None /\ ~ret[1].ok
                /\ ret[1].err = "Failed to get dynamic resource"
    /\ (op = "prepare_datafusion_context" /\ pc = "done" /\ cfg.enterprise) =>
          /\ ~Resolvable(session.work_group) => LookupCalls = {}
          /\ (Resolvable(session.work_group) /\ ~resource[1].ok) =>
                /\ ret # None /\ ~ret[1].ok
                /\ ret[1].err = "Failed to get dynamic resource"
                /\ ctx = None

C3_Witness ==
    /\ op = "prepare_datafusion_context" /\ pc = "done" /\ cfg.enterprise
    /\ session.work_group = Some("short") /\ ~resource[1].ok
    /\ LookupCalls # {}
    /\ ret = Some(Err("Failed to get dynamic resource"))
    /\ ctx = None

Unsupported == session.storage_type \notin {"Memory", "Wal", "Tmpfs"}

\* C4 as stated: create_parquet_table with a storage_type that is none of
\* Memory, Wal, Tmpfs returns the error "Unsupported storage_type", builds no
\* table and stages nothing.
C4_Original ==
    (op = "create_parquet_table" /\ pc = "done" /\ Unsupported) =>
        /\ ret # None /\ ~ret[1].ok
        /\ ret[1].err = "Unsupported storage_type"
        /\ table = None
        /\ SetCalls = {}
        /\ file_list = file_list0

\* C4 as amended: create_parquet_table with a storage_type that is none of
\* Memory, Wal, Tmpfs returns an error, which is "Unsupported storage_type"
\* unless the workgroup resource lookup of an enterprise build failed before
\* the storage type was looked at; it builds no table, makes no
\* file_list::set call and leaves the staged file lists as they were.
C4_UnsupportedStorage ==
    (op = "create_parquet_table" /\ pc = "done" /\ Unsupported) =>
        /\ ret # None /\ ~ret[1].ok
        /\ IF cfg.enterprise /\ Resolvable(session.work_group) /\ ~resource[1].ok
           THEN ret[1].err = "Failed to get dynamic resource"
           ELSE ret[1].err = "Unsupported storage_type"
        /\ table = None
        /\ SetCalls = {}
        /\ ListingCalls = {}
        /\ file_list = file_list0

C4_Witness ==
    /\ op = "create_parquet_table" /\ pc = "done" /\ Unsupported
    /\ ret = Some(Err("Unsupported storage_type"))
    /\ file_list = StaleFileList
    /\ cpt.target_partitions # 0

IsTimestamp(f) == f.name = cfg.column_timestamp

\* C7: a table built by create_parquet_table from a schema whose timestamp
\* column is nullable has a schema in which the timestamp field is
\* non-nullable Int64 and every other field is the same field at the same
\* position; a schema without a timestamp field, or with a non-nullable
\* one, is passed on unchanged.
C7_TimestampNormalized ==
    table # None =>
        LET out == table[1].schema
            ts == field_with_name(schema, cfg.column_timestamp)
        IN  IF ts.ok /\ ts.val.nullable
            THEN /\ Len(out) = Len(schema)
                 /\ field_with_name(out, cfg.column_timestamp)
                        = Ok([name |-> "_timestamp", data_type |-> "Int64",
                              nullable |-> FALSE])
                 /\ \A i \in 1..Len(schema) :
                        ~IsTimestamp(schema[i]) => out[i] = schema[i]
            ELSE out = schema

C7_Witness ==
    /\ table # None
    /\ Len(schema) = 2
    /\ schema[1] = [name |-> "a", data_type |-> "Utf8", nullable |-> TRUE]
    /\ schema[2] = [name |-> "_timestamp", data_type |-> "Utf8",
                    nullable |-> TRUE]
    /\ table[1].schema[1] = schema[1]
    /\ table[1].schema[2] = [name |-> "_timestamp", data_type |-> "Int64",
                             nullable |-> FALSE]

Scheme == IF session.storage_type = "Memory" THEN "memory" ELSE "wal"

\* C9: when create_parquet_table constructs the listing configuration for
\* storage_type Memory or Wal, a file_list::set call under (session id,
\* schema key) was made and completed before it, the files are staged under
\* that key, and the prefix is <scheme>:///<session id>/schema=<schema key>/
\* with the same id and key; for Tmpfs no file_list::set call was made and
\* the prefix is tmpfs:///<session id>/.
C9_StagedBeforeListing ==
    \A j \in ListingCalls :
        /\ session.storage_type \in {"Memory", "Wal"} =>
              \E i \in SetCalls :
                  /\ i < j
                  /\ trace[i].id = session.id
                  /\ <<trace[i].id, trace[i].schema_key>> \in DOMAIN file_list
                  /\ file_list[<<trace[i].id, trace[i].schema_key>>] = files
                  /\ Len(trace[j].prefix) = 6
                  /\ trace[j].prefix[1] = Scheme
                  /\ trace[j].prefix[2] = ":///"
                  /\ trace[j].prefix[3] = trace[i].id
                  /\ trace[j].prefix[4] = "/schema="
                  /\ trace[j].prefix[5] = trace[i].schema_key
                  /\ trace[j].prefix[6] = "/"
        /\ session.storage_type = "Tmpfs" =>
              /\ SetCalls = {}
              /\ file_list = file_list0
              /\ trace[j].prefix = <<"tmpfs", ":///", session.id, "/">>

C9_Witness ==
    /\ table # None
    /\ session.storage_type = "Wal"
    /\ session.id = "s2"
    /\ file_list0 = StaleFileList
    /\ SetCalls # {} /\ ListingCalls # {}
    /\ table[1].prefix[1] = "wal"

\* C10: after a register_table call of an enterprise build in which both
\* resource lookups got the same answer, the partition count of the context
\* equals the partition count of the table's listing options.
C10_SamePartitions ==
    (op = "register_table" /\ pc = "done" /\ cfg.enterprise
        /\ resource[1] = resource[2]
        /\ ctx # None /\ table # None) =>
        ctx[1].config.target_partitions = table[1].target_partitions

MergeReturnedOk ==
    op = "merge_parquet_files" /\ pc = "done" /\ ret # None /\ ret[1].ok

DeletedNames ==
    {merge.tbl[k].file_name :
        k \in {j \in 1..Len(merge.tbl) : merge.tbl[j].deleted = Some(TRUE)}}

SurvivorNames ==
    {merge.tbl[k].file_name : k \in 1..Len(merge.tbl)} \ DeletedNames

RowsNamed(rows, n) == {i \in 1..Len(rows) : rows[i].file_name = n}

\* C5 as stated, on inputs without a NULL file_name: for an Index stream no
\* output row has a file_name that a deleted input row has, and every
\* file_name never marked deleted has exactly one output row.
C5_Original ==
    (MergeReturnedOk /\ merge.stream_type = "Index"
        /\ \A k \in 1..Len(merge.tbl) : merge.tbl[k].file_name # None) =>
        LET out == ret[1].val.buf
        IN  /\ \A i \in 1..Len(out) : out[i].file_name \notin DeletedNames
            /\ \A n \in SurvivorNames : Cardinality(RowsNamed(out, n)) = 1

\* C5 as amended: for an Index stream no output row has a non-NULL
\* file_name that an input row with deleted = TRUE has; and, when no deleted
\* row has a NULL file_name, every input row whose file_name is non-NULL and
\* never marked deleted is in the output as often as it is in the input, so
\* that file_name has as many output rows as input rows: the rows of one
\* file_name are not merged into one.
C5_IndexDeletedExcluded ==
    (MergeReturnedOk /\ merge.stream_type = "Index") =>
        LET out == ret[1].val.buf
        IN  /\ merge.sql = Some([kind |-> "index", fields |-> <<>>])
            /\ \A i \in 1..Len(out) :
                   out[i].file_name # None => out[i].file_name \notin DeletedNames
            /\ None \notin DeletedNames =>
                   \A n \in SurvivorNames \ {None} :
                       /\ Cardinality(RowsNamed(out, n))
                              = Cardinality(RowsNamed(merge.tbl, n))
                       /\ \A k \in RowsNamed(merge.tbl, n) :
                              Cardinality({i \in 1..Len(out) : out[i] = merge.tbl[k]})
                                  = Cardinality({j \in 1..Len(merge.tbl) :
                                                    merge.tbl[j] = merge.tbl[k]})

C5_Witness ==
    /\ MergeReturnedOk /\ merge.stream_type = "Index"
    /\ Len(merge.tbl) = 2
    /\ merge.tbl[1].file_name = Some("a") /\ merge.tbl[1].deleted = Some(FALSE)
    /\ merge.tbl[2].file_name = Some("a") /\ merge.tbl[2].deleted = Some(TRUE)
    /\ ret[1].val.buf = <<>>

IsDistinctStream ==
    /\ cfg.distinct_values_hourly
    /\ merge.stream_type = "Metadata"
    /\ starts_with(merge.stream_name, DISTINCT_STREAM_PREFIX)

GroupFields == NameSet(schema) \ {cfg.column_timestamp, "count"}

SameGroup(r1, r2) == \A f \in GroupFields : r1[f] = r2[f]

Members(o) == {k \in 1..Len(merge.tbl) : SameGroup(merge.tbl[k], o)}

RECURSIVE CountsOf(_)
CountsOf(ks) ==
    IF ks = {} THEN 0
    ELSE LET k == CHOOSE x \in ks : TRUE
         IN  merge.tbl[k]["count"] + CountsOf(ks \ {k})

\* C6: for the hourly-distinct-values query (distinct_values_hourly on, a
\* Metadata stream whose name starts with DISTINCT_STREAM_PREFIX) the rows
\* are grouped by all schema fields other than the timestamp and "count":
\* every input row's group has exactly one output row, whose count is the
\* sum of the group's counts and whose timestamp is the group's minimum.
C6_DistinctRollup ==
    (MergeReturnedOk /\ IsDistinctStream) =>
        LET out == ret[1].val.buf
            ts == cfg.column_timestamp
        IN  /\ merge.sql # None /\ merge.sql[1].kind = "distinct"
            /\ Range(merge.sql[1].fields) = GroupFields
            /\ \A k \in 1..Len(merge.tbl) :
                   Cardinality({i \in 1..Len(out) :
                                   SameGroup(out[i], merge.tbl[k])}) = 1
            /\ \A i \in 1..Len(out) :
                   /\ Members(out[i]) # {}
                   /\ out[i]["count"] = CountsOf(Members(out[i]))
                   /\ \E k \in Members(out[i]) : merge.tbl[k][ts] = out[i][ts]
                   /\ \A k \in Members(out[i]) : merge.tbl[k][ts] >= out[i][ts]

C6_Witness ==
    /\ MergeReturnedOk /\ IsDistinctStream
    /\ schema = DistinctSchema1
    /\ merge.tbl = <<[_timestamp |-> 2, count |-> 1, a |-> 1],
                     [_timestamp |-> 1, count |-> 2, a |-> 1]>>
    /\ ret[1].val.buf = <<[_timestamp |-> 1, count |-> 3, a |-> 1]>>

Writes == {i \in 1..Len(trace) : trace[i].call = "write"}

RECURSIVE Written(_)
Written(n) ==
    IF n = 0 THEN <<>>
    ELSE Written(n - 1)
            \o (IF trace[n].call = "write" /\ trace[n].ok
                THEN trace[n].batch ELSE <<>>)

\* C8: in merge_parquet_files a failed write is the last thing the function
\* does before it returns that error, and a stream error is returned at
\* once; Ok(schema, buffer) is returned only after every batch of the stream
\* was written in stream order, the stream was exhausted, the writer was
\* closed and then table "tbl" was deregistered.
C8_AllBatchesOrError ==
    op = "merge_parquet_files" =>
        /\ \A i \in Writes :
               ~trace[i].ok =>
                   /\ i = Len(trace)
                   /\ pc = "done"
                   /\ ret = Some(Err("write error"))
        /\ (ret # None /\ ~ret[1].ok) =>
               /\ pc = "done"
               /\ DOMAIN ret[1] = {"ok", "err"}
               /\ ret[1].err \in {"write error", "execute stream error"} =>
                      \A i \in 1..Len(trace) : trace[i].call = "write"
        /\ (ret # None /\ ret[1].ok) =>
               LET n == Len(trace)
               IN  /\ pc = "done"
                   /\ merge.pending = <<>>
                   /\ merge.batch = None
                   /\ ret[1].val.buf = merge.output
                   /\ Written(n) = merge.output
                   /\ n >= 2
                   /\ trace[n - 1] = [call |-> "close", ok |-> TRUE]
                   /\ trace[n] = [call |-> "deregister_table", ok |-> TRUE]
                   /\ Writes = 1..(n - 2)
                   /\ \A i \in Writes : trace[i].ok

C8_Witness ==
    /\ MergeReturnedOk
    /\ Len(merge.output) = 2
    /\ Cardinality(Writes) = 2
    /\ ret[1].val.buf = merge.output
    /\ trace[Len(trace)].call = "deregister_table"

====
